---- MODULE Spec2Model ----
(***************************************************************************)
(* Model of ssdb_manager/ssdb_manager.py: a facade over pyodbc and         *)
(* SQLAlchemy whose every operation calls make_connection, runs one        *)
(* statement (or one pandas read/write) and calls close_connection unless  *)
(* custom_connection is set.  The module-level globals server, db, conn    *)
(* and engine are the shared state; the remote table is the database.      *)
(***************************************************************************)
EXTENDS Bags, FiniteSets, Integers, Sequences, TLC

VARIABLES
    server,       \* module global `server` ("" = not yet assigned)
    db,           \* module global `db`     ("" = not yet assigned)
    conn,         \* module global `conn`: index into connections, 0 = name unbound
    engine,       \* module global `engine`: index into engines, 0 = name unbound
    connections,  \* the pyodbc connection objects: id -> [st, by]
    engines,      \* the SQLAlchemy engine objects: id -> [st, by]
    table,        \* the remote table [db].[schema].[table_name]
    th,           \* per thread: the frame of the call it is running
    calls,        \* number of calls started so far
    last          \* what the call that completed last left behind

vars == <<server, db, conn, engine, connections, engines, table, th, calls, last>>

----------------------------------------------------------------------------
(* Bounds *)

MaxCalls == 2
MaxRows == 2
MaxDfRows == 1

(* Input domains *)

Threads == {1, 2}
Columns == {"a", "b"}
Vals == {"1", "2"}
Null == "NULL"
Keys == {<<"srv", "dbx">>, <<"srv">>, <<"srv", "dbx", "extra">>}
Modes == {"fail", "replace", "append"}
Queries == {"select", "invalid"}
Answers == {<<"y">>, <<"Y", "e">>, <<"y", "E", "s">>, <<"n">>, <<>>, <<"y", "e", "s", "s">>}

----------------------------------------------------------------------------
(* Tabular data: a row maps column names to values, rows form a bag *)

NoTable == [exists |-> FALSE, cols |-> {}, rows |-> EmptyBag]

NoDf == [cols |-> {}, rows |-> EmptyBag]

UniformRow(cols, v) == [c \in cols |-> v]

BagsUpTo(rowset, n) ==
    LET counts == [rowset -> 0..n]
        ok(f) == LET S == {r \in rowset : f[r] > 0}
                 IN  [r \in S |-> f[r]]
    IN  {ok(f) : f \in {g \in counts : BagCardinality(ok(g)) <= n}}

\* df.columns of the payloads tried: none, one column, all columns
PayloadCols == {{}, {"a"}, Columns}

Payloads ==
    UNION {{[cols |-> cs, rows |-> b] :
              b \in IF cs = {} THEN {EmptyBag}
                    ELSE BagsUpTo({UniformRow(cs, v) : v \in Vals}, MaxDfRows)} :
           cs \in PayloadCols}

\* df.shape / len(df)
Shape(cols, rows) == <<BagCardinality(rows), Cardinality(cols)>>

\* a payload row written into a table with columns tcols: absent columns are NULL
Fill(r, tcols) == [c \in tcols |-> IF c \in DOMAIN r THEN r[c] ELSE Null]

FillBag(b, tcols) ==
    LET S == {Fill(r, tcols) : r \in DOMAIN b}
    IN  [r2 \in S |-> b[CHOOSE r \in DOMAIN b : Fill(r, tcols) = r2]]

----------------------------------------------------------------------------
(* delete_rows: the WHERE clause, built as the loop of lines 217-225 builds it *)

\* kwargs: an ordered list of <<column, value>> with distinct columns
FilterSets ==
    {<<>>} \cup {<<<<c, v>>>> : c \in Columns, v \in Vals}
           \cup {<<<<"a", v1>>, <<"b", v2>>>> : v1 \in Vals, v2 \in Vals}

PredTok(kv) == [kind |-> "pred", col |-> kv[1], val |-> kv[2]]

AndTok == [kind |-> "and", col |-> "", val |-> ""]

\* `add` of one loop iteration: ' AND ' is appended unless counter = filter_count
WhereAdd(filters, counter) ==
    IF counter # Len(filters) THEN <<PredTok(filters[counter]), AndTok>>
                              ELSE <<PredTok(filters[counter])>>

RECURSIVE WhereFrom(_, _)
WhereFrom(filters, counter) ==
    IF counter > Len(filters) THEN <<>>
    ELSE WhereAdd(filters, counter) \o WhereFrom(filters, counter + 1)

where_clause(filters) == WhereFrom(filters, 1)

\* what the server makes of the clause: predicates separated by AND
WellFormed(w) ==
    /\ Len(w) % 2 = 1
    /\ \A i \in 1..Len(w) : w[i].kind = (IF i % 2 = 1 THEN "pred" ELSE "and")

WhereCols(w) == {w[i].col : i \in {j \in 1..Len(w) : w[j].kind = "pred"}}

RowMatches(w, r) ==
    \A i \in {j \in 1..Len(w) : w[j].kind = "pred"} :
        r[w[i].col] # Null /\ r[w[i].col] = w[i].val

Matching(w, rows) == LET S == {r \in DOMAIN rows : RowMatches(w, r)}
                     IN  [r \in S |-> rows[r]]

\* the statement is rejected: missing table, malformed clause, unknown column
WhereRejected(w, tb) == ~tb.exists \/ ~WellFormed(w) \/ ~(WhereCols(w) \subseteq tb.cols)

----------------------------------------------------------------------------
(* delete_rows: the confirmation prompt *)

UpChar(c) == CASE c = "y" -> "Y" [] c = "e" -> "E" [] c = "s" -> "S"
               [] c = "n" -> "N" [] c = "o" -> "O" [] OTHER -> c

\* str.upper()
Upper(s) == [i \in DOMAIN s |-> UpChar(s[i])]

YesAnswers == {<<"Y">>, <<"Y", "E">>, <<"Y", "E", "S">>}

\* faulty variant: anything that starts with Y is taken as yes
AcceptsPrefix(answer) == Len(answer) > 0 /\ Upper(answer)[1] = "Y"

Accepts(answer) == Upper(answer) \in YesAnswers

----------------------------------------------------------------------------
(* The two precondition checks and the custom_connection switches *)

\* faulty variant: the assertion lets longer keys through
KeyOkLoose(key) == Len(key) >= 2

KeyOk(key) == Len(key) = 2

NoFilters(filters) == Len(filters) = 0

\* faulty variant: make_connection ignores custom_connection
OpensAlways(cc) == TRUE

\* make_connection opens conn and engine only if not custom_connection
Opens(cc) == ~cc

\* every operation calls close_connection only if not custom_connection
Closes(cc) == ~cc

----------------------------------------------------------------------------
(* Handles *)

\* who opened an object: the running call of a thread, a call that has ended,
\* or the caller itself
ByCall(t) == <<"call", t>>

ByPast == <<"past">>

ByUser == <<"user">>

Opened(by) == [st |-> "open", by |-> by]

\* a fresh object identity
NewId(objs) == CHOOSE i \in 1..(Cardinality(DOMAIN objs) + 1) :
                  i \notin DOMAIN objs /\ \A j \in 1..(i - 1) : j \in DOMAIN objs

With(objs, i, o) == [j \in DOMAIN objs \cup {i} |-> IF j = i THEN o ELSE objs[j]]

None == [i \in {} |-> Opened(ByUser)]

ConnSt(c) == IF c = 0 THEN "unbound" ELSE connections[c].st

EngSt(e) == IF e = 0 THEN "unbound" ELSE engines[e].st

\* faulty variant: close_connection without conn.close()
ClosedConnNoop(cs, c) == cs

\* conn.close()
ClosedConn(cs, c) == [cs EXCEPT ![c].st = "closed"]

\* faulty variant: close_connection without engine.dispose()
DisposedEngineNoop(es, e) == es

\* engine.dispose()
DisposedEngine(es, e) == [es EXCEPT ![e].st = "closed"]

LiveConns(by) == {c \in DOMAIN connections :
                    connections[c].by = by /\ connections[c].st = "open"}

LiveEngines(by) == {e \in DOMAIN engines :
                      engines[e].by = by /\ engines[e].st = "open"}

OpenedConns(by) == {c \in DOMAIN connections : connections[c].by = by}

OpenedEngines(by) == {e \in DOMAIN engines : engines[e].by = by}

----------------------------------------------------------------------------
(* Call frames *)

Ops == {"import", "create", "populate", "drop", "trunc", "delete", "query"}

NoResult == <<>>

NoEntry == [conn |-> 0, engine |-> 0, connSt |-> "unbound", engSt |-> "unbound",
            conns |-> {}, engs |-> {}]

IdleFrame ==
    [pc |-> "idle", op |-> "none", key |-> <<>>, cc |-> FALSE,
     df |-> NoDf, mode |-> "append", filters |-> <<>>, query |-> "none",
     nested |-> FALSE,          \* create_table has reached its populate_table call
     preview |-> EmptyBag,      \* to_be_dropped
     prompted |-> FALSE, answer |-> <<>>,
     deleted |-> EmptyBag,      \* rows the DELETE statement removed
     before |-> NoTable,        \* delete_rows: the table when the call began
     exc |-> "none",            \* the exception that ended the call
     sent |-> {},               \* kinds of statement this call got executed
     mine |-> 0, mineEng |-> 0, \* handles the latest make_connection opened
     ran |-> 0,                 \* connection the call's cursor statement ran on
     entry |-> NoEntry,         \* the globals when the call began
     result |-> NoResult]       \* shape of the returned data_table

\* created: it was create_table and returned, with payload df;
\* closed: it returned with custom_connection = False
NoLast == [created |-> FALSE, df |-> NoDf, closed |-> FALSE]

InitTables ==
    {NoTable,
     [exists |-> TRUE, cols |-> Columns,
      rows |-> SetToBag({UniformRow(Columns, "1"), UniformRow(Columns, "2")})]}

Init ==
    /\ server = ""
    /\ db = ""
    /\ conn = 0
    /\ engine = 0
    /\ connections = None
    /\ engines = None
    /\ table \in InitTables
    /\ th = [t \in Threads |-> IdleFrame]
    /\ calls = 0
    /\ last = NoLast

Snapshot == [conn |-> conn, engine |-> engine, connSt |-> ConnSt(conn),
             engSt |-> EngSt(engine), conns |-> DOMAIN connections,
             engs |-> DOMAIN engines]

\* A caller enters one of the operations `ops`.  delete_rows checks its filters
\* first (lines 210-213); every other operation starts with make_connection.
Call(t, ops) ==
    /\ th[t].pc = "idle"
    /\ calls < MaxCalls
    /\ \E op \in ops, key \in Keys, cc \in BOOLEAN :
       \E df \in (IF op \in {"create", "populate"} THEN Payloads ELSE {NoDf}),
          mode \in (IF op = "populate" THEN Modes ELSE {"append"}),
          filters \in (IF op = "delete" THEN FilterSets ELSE {<<>>}),
          query \in (IF op = "query" THEN Queries ELSE {"none"}) :
            LET f == [IdleFrame EXCEPT
                        !.op = op, !.key = key, !.cc = cc, !.df = df,
                        !.mode = mode, !.filters = filters, !.query = query,
                        !.before = IF op = "delete" THEN table ELSE NoTable,
                        !.entry = Snapshot]
            IN  th' = [th EXCEPT ![t] =
                         IF op = "delete" /\ NoFilters(filters)
                         THEN [f EXCEPT !.pc = "raised", !.exc = "Exception"]
                         ELSE [f EXCEPT !.pc = "make_connection"]]
    /\ calls' = calls + 1
    /\ UNCHANGED <<server, db, conn, engine, connections, engines, table, last>>

Begin(t) == Call(t, Ops)

\* make_connection, lines 33-37: the assertion, then server and db
MakeConnection(t) ==
    /\ th[t].pc = "make_connection"
    /\ IF ~KeyOk(th[t].key)
       THEN /\ th' = [th EXCEPT ![t].pc = "raised", ![t].exc = "AssertionError"]
            /\ UNCHANGED <<server, db>>
       ELSE /\ server' = th[t].key[1]
            /\ db' = th[t].key[2]
            /\ th' = [th EXCEPT ![t].pc = IF Opens(th[t].cc) THEN "connect" ELSE "exec"]
    /\ UNCHANGED <<conn, engine, connections, engines, table, calls, last>>

\* make_connection, lines 39-41: conn = pyodbc.connect(conn_text), which may fail
McConnect(t) ==
    /\ th[t].pc = "connect"
    /\ \E fail \in BOOLEAN :
         IF fail
         THEN /\ th' = [th EXCEPT ![t].pc = "raised", ![t].exc = "ConnectError"]
              /\ UNCHANGED <<conn, connections>>
         ELSE /\ connections' = With(connections, NewId(connections), Opened(ByCall(t)))
              /\ conn' = NewId(connections)
              /\ th' = [th EXCEPT ![t].pc = "create_engine", ![t].mine = NewId(connections)]
    /\ UNCHANGED <<server, db, engine, engines, table, calls, last>>

\* make_connection, lines 42-43: engine = create_engine(engine_text, ...)
McEngine(t) ==
    /\ th[t].pc = "create_engine"
    /\ engines' = With(engines, NewId(engines), Opened(ByCall(t)))
    /\ engine' = NewId(engines)
    /\ th' = [th EXCEPT ![t].pc = "exec", ![t].mineEng = NewId(engines)]
    /\ UNCHANGED <<server, db, conn, connections, table, calls, last>>

----------------------------------------------------------------------------
(* Leaving a statement: no operation has a try/except/finally *)

\* variant with a try/finally around the statement: the session is closed
ErrorExitClosing(t, e, stmts) ==
    /\ th' = [th EXCEPT ![t].pc = "raised", ![t].exc = e, ![t].sent = @ \cup stmts]
    /\ connections' = IF conn = 0 THEN connections ELSE ClosedConn(connections, conn)
    /\ engines' = IF engine = 0 THEN engines ELSE DisposedEngine(engines, engine)
    /\ UNCHANGED <<conn, engine>>

\* the exception leaves the function at once; nothing is closed
ErrorExit(t, e, stmts) ==
    /\ th' = [th EXCEPT ![t].pc = "raised", ![t].exc = e, ![t].sent = @ \cup stmts]
    /\ UNCHANGED <<conn, engine, connections, engines>>

\* faulty variant: create_table without its populate_table call
FinishNoPopulate(f) == [f EXCEPT !.pc = "returned"]

\* the function's end: create_table goes on to call populate_table
Finish(f) ==
    IF f.op = "create" /\ ~f.nested
    THEN [f EXCEPT !.pc = "make_connection", !.nested = TRUE]
    ELSE [f EXCEPT !.pc = "returned"]

\* faulty variant: create_table does not close before populate_table
AfterStatementCreateKeepsOpen(f) ==
    IF Closes(f.cc) /\ ~(f.op = "create" /\ ~f.nested)
    THEN [f EXCEPT !.pc = "close_conn"] ELSE Finish(f)

\* `if not custom_connection: close_connection()`
AfterStatement(f) == IF Closes(f.cc) THEN [f EXCEPT !.pc = "close_conn"] ELSE Finish(f)

\* a statement through the global conn: conn.cursor() / cursor.execute()
ConnFault(fail) ==
    IF conn = 0 THEN "NameError"
    ELSE IF connections[conn].st = "closed" THEN "ProgrammingError"
    ELSE IF fail THEN "DriverError" ELSE "none"

\* a statement through the global engine (pandas read_sql_query / to_sql); a
\* disposed engine reconnects on use, so only the driver decides
EngineFault(fail) ==
    IF engine = 0 THEN "NameError"
    ELSE IF fail THEN "DriverError" ELSE "none"

Reached(e, stmts) == IF e \in {"NameError", "ProgrammingError"} THEN {} ELSE stmts

----------------------------------------------------------------------------
(* The statements of the seven operations *)

\* import_table, line 72
ImportExec(t) ==
    /\ th[t].pc = "exec" /\ th[t].op = "import"
    /\ \E fail \in BOOLEAN :
         LET fault == EngineFault(fail)
             e == IF fault # "none" THEN fault
                  ELSE IF ~table.exists THEN "SqlError" ELSE "none"
         IN  IF e # "none" THEN ErrorExit(t, e, Reached(e, {"SELECT"}))
             ELSE /\ th' = [th EXCEPT ![t] = AfterStatement(
                              [th[t] EXCEPT !.result = Shape(table.cols, table.rows),
                                            !.sent = @ \cup {"SELECT"}])]
                  /\ UNCHANGED <<conn, engine, connections, engines>>
    /\ UNCHANGED <<server, db, table, calls, last>>

\* create_table, lines 98-108: one column per payload column; the statement is
\* rejected if the table exists or the column list is empty
CreateExec(t) ==
    /\ th[t].pc = "exec" /\ th[t].op = "create" /\ ~th[t].nested
    /\ \E fail \in BOOLEAN :
         LET fault == ConnFault(fail)
             e == IF fault # "none" THEN fault
                  ELSE IF table.exists \/ th[t].df.cols = {} THEN "SqlError" ELSE "none"
         IN  IF e # "none"
             THEN ErrorExit(t, e, Reached(e, {"CREATE"})) /\ UNCHANGED table
             ELSE /\ table' = [exists |-> TRUE, cols |-> th[t].df.cols, rows |-> EmptyBag]
                  /\ th' = [th EXCEPT ![t] = AfterStatement(
                              [th[t] EXCEPT !.sent = @ \cup {"CREATE", "COMMIT"},
                                            !.ran = conn])]
                  /\ UNCHANGED <<conn, engine, connections, engines>>
    /\ UNCHANGED <<server, db, calls, last>>

\* DataFrame.to_sql(table_name, con=engine, if_exists=mode, index=False)
ToSql(tb, df, mode) ==
    IF ~tb.exists \/ mode = "replace"
    THEN IF df.cols = {} THEN [err |-> "SqlError", tb |-> tb]
         ELSE [err |-> "none",
               tb |-> [exists |-> TRUE, cols |-> df.cols, rows |-> df.rows]]
    ELSE IF mode = "fail" THEN [err |-> "ValueError", tb |-> tb]
    ELSE IF ~(df.cols \subseteq tb.cols) THEN [err |-> "SqlError", tb |-> tb]
    ELSE [err |-> "none",
          tb |-> [tb EXCEPT !.rows = @ (+) FillBag(df.rows, tb.cols)]]

\* populate_table, lines 134-135; create_table's nested call passes the default
\* if_exists = 'append'
PopulateExec(t) ==
    /\ th[t].pc = "exec"
    /\ th[t].op = "populate" \/ (th[t].op = "create" /\ th[t].nested)
    /\ \E fail \in BOOLEAN :
         LET fault == EngineFault(fail)
             mode == IF th[t].op = "create" THEN "append" ELSE th[t].mode
             out == ToSql(table, th[t].df, mode)
             e == IF fault # "none" THEN fault ELSE out.err
         IN  IF e # "none"
             THEN ErrorExit(t, e, Reached(e, {"INSERT"})) /\ UNCHANGED table
             ELSE /\ BagCardinality(out.tb.rows) <= MaxRows
                  /\ table' = out.tb
                  /\ th' = [th EXCEPT ![t] = AfterStatement(
                              [th[t] EXCEPT !.sent = @ \cup {"INSERT"}])]
                  /\ UNCHANGED <<conn, engine, connections, engines>>
    /\ UNCHANGED <<server, db, calls, last>>

\* drop_table, lines 156-158
DropExec(t) ==
    /\ th[t].pc = "exec" /\ th[t].op = "drop"
    /\ \E fail \in BOOLEAN :
         LET fault == ConnFault(fail)
             e == IF fault # "none" THEN fault
                  ELSE IF ~table.exists THEN "SqlError" ELSE "none"
         IN  IF e # "none"
             THEN ErrorExit(t, e, Reached(e, {"DROP"})) /\ UNCHANGED table
             ELSE /\ table' = NoTable
                  /\ th' = [th EXCEPT ![t] = AfterStatement(
                              [th[t] EXCEPT !.sent = @ \cup {"DROP", "COMMIT"},
                                            !.ran = conn])]
                  /\ UNCHANGED <<conn, engine, connections, engines>>
    /\ UNCHANGED <<server, db, calls, last>>

\* trunc_table, lines 179-181
TruncExec(t) ==
    /\ th[t].pc = "exec" /\ th[t].op = "trunc"
    /\ \E fail \in BOOLEAN :
         LET fault == ConnFault(fail)
             e == IF fault # "none" THEN fault
                  ELSE IF ~table.exists THEN "SqlError" ELSE "none"
         IN  IF e # "none"
             THEN ErrorExit(t, e, Reached(e, {"TRUNCATE"})) /\ UNCHANGED table
             ELSE /\ table' = [table EXCEPT !.rows = EmptyBag]
                  /\ th' = [th EXCEPT ![t] = AfterStatement(
                              [th[t] EXCEPT !.sent = @ \cup {"TRUNCATE", "COMMIT"},
                                            !.ran = conn])]
                  /\ UNCHANGED <<conn, engine, connections, engines>>
    /\ UNCHANGED <<server, db, calls, last>>

\* delete_rows, lines 215-229: the preview SELECT
DeletePreview(t) ==
    /\ th[t].pc = "exec" /\ th[t].op = "delete"
    /\ \E fail \in BOOLEAN :
         LET fault == EngineFault(fail)
             w == where_clause(th[t].filters)
             e == IF fault # "none" THEN fault
                  ELSE IF WhereRejected(w, table) THEN "SqlError" ELSE "none"
         IN  IF e # "none" THEN ErrorExit(t, e, Reached(e, {"SELECT"}))
             ELSE /\ th' = [th EXCEPT ![t].pc = "prompt",
                                      ![t].preview = Matching(w, table.rows),
                                      ![t].sent = @ \cup {"SELECT"}]
                  /\ UNCHANGED <<conn, engine, connections, engines>>
    /\ UNCHANGED <<server, db, table, calls, last>>

\* delete_rows, lines 230-231 and 237-240: the answer to input()
DeletePrompt(t) ==
    /\ th[t].pc = "prompt"
    /\ \E answer \in Answers :
         LET f == [th[t] EXCEPT !.prompted = TRUE, !.answer = answer]
         IN  th' = [th EXCEPT ![t] = IF Accepts(answer) THEN [f EXCEPT !.pc = "delete"]
                                     ELSE AfterStatement(f)]
    /\ UNCHANGED <<server, db, conn, engine, connections, engines, table, calls, last>>

\* delete_rows, lines 232-236: the DELETE with the same WHERE clause, and commit
DeleteExec(t) ==
    /\ th[t].pc = "delete"
    /\ \E fail \in BOOLEAN :
         LET fault == ConnFault(fail)
             w == where_clause(th[t].filters)
             e == IF fault # "none" THEN fault
                  ELSE IF WhereRejected(w, table) THEN "SqlError" ELSE "none"
             gone == Matching(w, table.rows)
         IN  IF e # "none"
             THEN ErrorExit(t, e, Reached(e, {"DELETE"})) /\ UNCHANGED table
             ELSE /\ table' = [table EXCEPT !.rows = @ (-) gone]
                  /\ th' = [th EXCEPT ![t] = AfterStatement(
                              [th[t] EXCEPT !.deleted = gone,
                                            !.sent = @ \cup {"DELETE", "COMMIT"},
                                            !.ran = conn])]
                  /\ UNCHANGED <<conn, engine, connections, engines>>
    /\ UNCHANGED <<server, db, calls, last>>

\* custom_query, line 256
QueryExec(t) ==
    /\ th[t].pc = "exec" /\ th[t].op = "query"
    /\ \E fail \in BOOLEAN :
         LET fault == EngineFault(fail)
             e == IF fault # "none" THEN fault
                  ELSE IF th[t].query = "invalid" \/ ~table.exists THEN "SqlError"
                  ELSE "none"
         IN  IF e # "none" THEN ErrorExit(t, e, Reached(e, {"QUERY"}))
             ELSE /\ th' = [th EXCEPT ![t] = AfterStatement(
                              [th[t] EXCEPT !.result = Shape(table.cols, table.rows),
                                            !.sent = @ \cup {"QUERY"}])]
                  /\ UNCHANGED <<conn, engine, connections, engines>>
    /\ UNCHANGED <<server, db, table, calls, last>>

----------------------------------------------------------------------------
(* close_connection, the end of a call, and the caller *)

\* variant: close_connection closes the handle its own call opened
ConnToCloseOwn(f) == f.mine

\* close_connection reads the module global, not a handle of the call
ConnToClose(f) == conn

\* close_connection, line 52: conn.close(); closing a closed connection raises
CloseConn(t) ==
    /\ th[t].pc = "close_conn"
    /\ IF ConnSt(ConnToClose(th[t])) = "closed"
       THEN ErrorExit(t, "ProgrammingError", {})
       ELSE /\ connections' = ClosedConn(connections, ConnToClose(th[t]))
            /\ th' = [th EXCEPT ![t].pc = "dispose"]
            /\ UNCHANGED <<conn, engine, engines>>
    /\ UNCHANGED <<server, db, table, calls, last>>

\* close_connection, line 53: engine.dispose()
CloseEngine(t) ==
    /\ th[t].pc = "dispose"
    /\ engines' = DisposedEngine(engines, engine)
    /\ th' = [th EXCEPT ![t] = Finish(th[t])]
    /\ UNCHANGED <<server, db, conn, engine, connections, table, calls, last>>

Completed(f, ok) ==
    [created |-> ok /\ f.op = "create",
     df |-> IF ok /\ f.op = "create" THEN f.df ELSE NoDf,
     closed |-> ok /\ ~f.cc]

\* When the call of thread t ends, its frame is gone: the objects it opened
\* belong to a past call, and an object that neither the global name nor the
\* frame of another running call refers to is out of the module's reach for
\* good, closed or not, and leaves the state.
Kept(objs, t, global, held) ==
    LET keep == {i \in DOMAIN objs : i = global \/ i \in held}
    IN  [i \in keep |-> IF objs[i].by = ByCall(t) THEN [objs[i] EXCEPT !.by = ByPast] ELSE objs[i]]

HeldConns(t) == {th[u].mine : u \in Threads \ {t}} \cup {th[u].ran : u \in Threads \ {t}}

HeldEngines(t) == {th[u].mineEng : u \in Threads \ {t}}

\* the operation returns to its caller
Return(t) ==
    /\ th[t].pc = "returned"
    /\ th' = [th EXCEPT ![t] = IdleFrame]
    /\ last' = Completed(th[t], TRUE)
    /\ connections' = Kept(connections, t, conn, HeldConns(t))
    /\ engines' = Kept(engines, t, engine, HeldEngines(t))
    /\ UNCHANGED <<server, db, conn, engine, table, calls>>

\* the exception reaches the caller
Propagate(t) ==
    /\ th[t].pc = "raised"
    /\ th' = [th EXCEPT ![t] = IdleFrame]
    /\ last' = Completed(th[t], FALSE)
    /\ connections' = Kept(connections, t, conn, HeldConns(t))
    /\ engines' = Kept(engines, t, engine, HeldEngines(t))
    /\ UNCHANGED <<server, db, conn, engine, table, calls>>

\* custom-connection mode: between two calls the caller binds the module's conn
\* and engine to a session of its own (docstrings, lines 11-12 and 49-50), when
\* conn is not its own open connection already
UserInstall ==
    /\ \A t \in Threads : th[t].pc = "idle"
    /\ ~(conn # 0 /\ connections[conn] = Opened(ByUser))
    /\ connections' = With(connections, NewId(connections), Opened(ByUser))
    /\ conn' = NewId(connections)
    /\ engines' = With(engines, NewId(engines), Opened(ByUser))
    /\ engine' = NewId(engines)
    /\ last' = NoLast
    /\ UNCHANGED <<server, db, table, th, calls>>

----------------------------------------------------------------------------
(* Other clients of the same database *)

OtherInsert ==
    /\ table.exists
    /\ BagCardinality(table.rows) < MaxRows
    /\ \E v \in Vals :
         table' = [table EXCEPT !.rows = @ (+) SetToBag({UniformRow(table.cols, v)})]
    /\ UNCHANGED <<server, db, conn, engine, connections, engines, th, calls, last>>

OtherDelete ==
    /\ table.exists
    /\ \E r \in DOMAIN table.rows :
         table' = [table EXCEPT !.rows = @ (-) SetToBag({r})]
    /\ UNCHANGED <<server, db, conn, engine, connections, engines, th, calls, last>>

----------------------------------------------------------------------------
(* Specifications *)

\* one caller, one call at a time, nobody else on the database
Next ==
    \/ \E t \in {1} : Begin(t)
    \/ \E t \in {1} : MakeConnection(t)
    \/ \E t \in {1} : McConnect(t)
    \/ \E t \in {1} : McEngine(t)
    \/ \E t \in {1} : ImportExec(t)
    \/ \E t \in {1} : CreateExec(t)
    \/ \E t \in {1} : PopulateExec(t)
    \/ \E t \in {1} : DropExec(t)
    \/ \E t \in {1} : TruncExec(t)
    \/ \E t \in {1} : DeletePreview(t)
    \/ \E t \in {1} : DeletePrompt(t)
    \/ \E t \in {1} : DeleteExec(t)
    \/ \E t \in {1} : QueryExec(t)
    \/ \E t \in {1} : CloseConn(t)
    \/ \E t \in {1} : CloseEngine(t)
    \/ \E t \in {1} : Return(t)
    \/ \E t \in {1} : Propagate(t)
    \/ UserInstall

Spec == Init /\ [][Next]_vars

BeginDelete(t) == Call(t, {"delete"})

\* one caller running delete_rows while other clients change the table
NextClients ==
    \/ \E t \in {1} : BeginDelete(t)
    \/ \E t \in {1} : MakeConnection(t)
    \/ \E t \in {1} : McConnect(t)
    \/ \E t \in {1} : McEngine(t)
    \/ \E t \in {1} : DeletePreview(t)
    \/ \E t \in {1} : DeletePrompt(t)
    \/ \E t \in {1} : DeleteExec(t)
    \/ \E t \in {1} : CloseConn(t)
    \/ \E t \in {1} : CloseEngine(t)
    \/ \E t \in {1} : Return(t)
    \/ \E t \in {1} : Propagate(t)
    \/ OtherInsert
    \/ OtherDelete

SpecClients == Init /\ [][NextClients]_vars

BeginConc(t) == Call(t, {"trunc", "import"})

\* two threads of one process, each running trunc_table or import_table
NextConc ==
    \/ \E t \in Threads : BeginConc(t)
    \/ \E t \in Threads : MakeConnection(t)
    \/ \E t \in Threads : McConnect(t)
    \/ \E t \in Threads : McEngine(t)
    \/ \E t \in Threads : ImportExec(t)
    \/ \E t \in Threads : TruncExec(t)
    \/ \E t \in Threads : CloseConn(t)
    \/ \E t \in Threads : CloseEngine(t)
    \/ \E t \in Threads : Return(t)
    \/ \E t \in Threads : Propagate(t)

SpecConc == Init /\ [][NextConc]_vars

----------------------------------------------------------------------------
(* Properties *)

\* C1: with custom_connection = False, when an operation returns normally every
\* connection and every engine the call opened has been closed.
NoLeakOnReturn ==
    \A t \in Threads :
        (th[t].pc = "returned" /\ ~th[t].cc) =>
            /\ OpenedConns(ByCall(t)) # {}
            /\ OpenedEngines(ByCall(t)) # {}
            /\ LiveConns(ByCall(t)) = {}
            /\ LiveEngines(ByCall(t)) = {}

\* create_table has returned: two sessions were opened by the call, none is live
NoLeakOnReturnWitness ==
    /\ th[1].pc = "returned" /\ ~th[1].cc /\ th[1].op = "create"
    /\ Cardinality(OpenedConns(ByCall(1))) = 2
    /\ Cardinality(OpenedEngines(ByCall(1))) = 2

\* C2: a call with a key of the wrong length, or delete_rows without filters,
\* raises before anything is opened and before any statement is executed.
PreconditionBeforeConnect ==
    \A t \in Threads :
        LET f == th[t]
            nofilter == f.op = "delete" /\ Len(f.filters) = 0
        IN  (f.op # "none" /\ (nofilter \/ Len(f.key) # 2)) =>
              /\ OpenedConns(ByCall(t)) = {}
              /\ OpenedEngines(ByCall(t)) = {}
              /\ f.sent = {}
              /\ IF nofilter THEN f.pc = "raised" /\ f.exc = "Exception"
                 ELSE \/ f.pc = "make_connection"
                      \/ f.pc = "raised" /\ f.exc = "AssertionError"

\* delete_rows with a filter and a three-part key has failed the assertion
PreconditionBeforeConnectWitness ==
    /\ th[1].pc = "raised" /\ th[1].exc = "AssertionError"
    /\ th[1].op = "delete" /\ Len(th[1].key) = 3 /\ ~th[1].cc

\* C3: when the user accepts, the rows delete_rows removed are exactly the rows
\* the preview SELECT returned, whatever other clients do in between.
DeleteRemovesExactlyPreview ==
    \A t \in Threads :
        (th[t].op = "delete" /\ th[t].pc = "returned" /\ th[t].prompted
           /\ Upper(th[t].answer) \in YesAnswers) =>
            th[t].deleted = th[t].preview

\* C4: an answer that upper-cased is none of Y, YE, YES executes no DELETE and
\* commits nothing; the table is as it was and the call does not raise.
DeclineChangesNothing ==
    \A t \in Threads :
        (th[t].op = "delete" /\ th[t].prompted
           /\ Upper(th[t].answer) \notin {<<"Y">>, <<"Y", "E">>, <<"Y", "E", "S">>}) =>
            /\ "DELETE" \notin th[t].sent
            /\ "COMMIT" \notin th[t].sent
            /\ th[t].deleted = EmptyBag
            /\ table = th[t].before
            /\ th[t].pc \in {"close_conn", "dispose", "returned"}

\* the answer "yess" to a preview that showed rows, and the call has returned
DeclineChangesNothingWitness ==
    /\ th[1].op = "delete" /\ th[1].pc = "returned"
    /\ th[1].answer = <<"y", "e", "s", "s">>
    /\ th[1].preview # EmptyBag

\* C5: with custom_connection = False, a statement (or pandas call) that raises
\* leaves the call with the connection and the engine it opened still open.
ExecErrorLeavesSessionOpen ==
    \A t \in Threads :
        (th[t].pc = "raised" /\ ~th[t].cc
           /\ th[t].exc \in {"DriverError", "SqlError", "ValueError"}) =>
            /\ conn = th[t].mine
            /\ engine = th[t].mineEng
            /\ connections[conn] = Opened(ByCall(t))
            /\ engines[engine] = Opened(ByCall(t))

\* populate_table with if_exists = 'fail' on an existing table has raised
ExecErrorLeavesSessionOpenWitness ==
    /\ th[1].pc = "raised" /\ ~th[1].cc
    /\ th[1].op = "populate" /\ th[1].exc = "ValueError"

\* C6: with custom_connection = True the call leaves conn and engine bound to
\* the same objects in the same state, and opens nothing.
CustomConnectionUntouched ==
    \A t \in Threads :
        (th[t].op # "none" /\ th[t].cc) =>
            /\ conn = th[t].entry.conn
            /\ engine = th[t].entry.engine
            /\ ConnSt(conn) = th[t].entry.connSt
            /\ EngSt(engine) = th[t].entry.engSt
            /\ DOMAIN connections = th[t].entry.conns
            /\ DOMAIN engines = th[t].entry.engs

\* create_table on the caller's open session has run both of its steps
CustomConnectionUntouchedWitness ==
    /\ th[1].op = "create" /\ th[1].cc /\ th[1].pc = "returned" /\ th[1].nested
    /\ th[1].sent = {"CREATE", "COMMIT", "INSERT"}
    /\ th[1].entry.connSt = "open" /\ th[1].entry.engSt = "open"

\* C7: with custom_connection = False a call never has more than one live
\* connection and one live engine of its own; create_table has none when its
\* nested populate_table starts.
AtMostOneLivePair ==
    \A t \in Threads :
        (th[t].op # "none" /\ ~th[t].cc) =>
            /\ Cardinality(LiveConns(ByCall(t))) <= 1
            /\ Cardinality(LiveEngines(ByCall(t))) <= 1
            /\ (th[t].nested /\ th[t].pc = "make_connection") =>
                   LiveConns(ByCall(t)) = {} /\ LiveEngines(ByCall(t)) = {}

\* create_table's nested populate_table holds the call's second session
AtMostOneLivePairWitness ==
    /\ th[1].op = "create" /\ ~th[1].cc /\ th[1].nested /\ th[1].pc = "exec"
    /\ Cardinality(OpenedConns(ByCall(1))) = 2
    /\ Cardinality(LiveConns(ByCall(1))) = 1
    /\ Cardinality(LiveEngines(ByCall(1))) = 1

\* C8: import_table right after a create_table that returned yields the
\* payload's row count and column count.
CreateThenImportShape ==
    \A t \in Threads :
        (th[t].op = "import" /\ th[t].pc = "returned" /\ last.created) =>
            th[t].result = <<BagCardinality(last.df.rows), Cardinality(last.df.cols)>>

\* a payload of one row and two columns came back as (1, 2)
CreateThenImportShapeWitness ==
    /\ th[1].op = "import" /\ th[1].pc = "returned" /\ last.created
    /\ last.df.cols = Columns
    /\ th[1].result = <<1, 2>>

\* C9: two interleaved calls share conn and engine.  Once the global conn no
\* longer names an open connection, no step of any call closes that connection.
OrphanNeverClosed ==
    [][\A c \in DOMAIN connections :
          (connections[c].st = "open" /\ c # conn) =>
              (c \in DOMAIN connections' => connections'[c].st = "open")]_vars

\* thread 1's trunc_table ran its statement on, and closed, the connection
\* thread 2 opened; the connection thread 1 opened is open and out of reach
OrphanNeverClosedWitness ==
    /\ th[1].op = "trunc" /\ ~th[1].cc /\ th[1].pc = "returned"
    /\ th[2].op # "none" /\ ~th[2].cc
    /\ th[1].ran = th[2].mine /\ th[1].ran # th[1].mine
    /\ connections[th[1].ran] = [st |-> "closed", by |-> ByCall(2)]
    /\ connections[th[1].mine] = Opened(ByCall(1))
    /\ conn # th[1].mine

\* C10: when a custom_connection = False call returns, conn and engine name the
\* closed session of that call; a custom_connection = True call that follows
\* without a new install works on those closed handles.
StaleHandlesAfterOwnSession ==
    \A t \in Threads :
        /\ (th[t].pc = "returned" /\ ~th[t].cc) =>
              /\ conn = th[t].mine /\ engine = th[t].mineEng
              /\ connections[conn] = [st |-> "closed", by |-> ByCall(t)]
              /\ engines[engine] = [st |-> "closed", by |-> ByCall(t)]
        /\ (th[t].op # "none" /\ th[t].cc /\ last.closed) =>
              /\ conn # 0 /\ engine # 0
              /\ connections[conn] = [st |-> "closed", by |-> ByPast]
              /\ engines[engine] = [st |-> "closed", by |-> ByPast]

\* drop_table with custom_connection = True found the connection closed
StaleHandlesAfterOwnSessionWitness ==
    /\ th[1].op = "drop" /\ th[1].cc /\ last.closed
    /\ th[1].pc = "raised" /\ th[1].exc = "ProgrammingError"
    /\ th[1].sent = {}

====
